---- MODULE Spec2Model ----
(***************************************************************************)
(* Model of src/src/uefi.rs: the UEFI bridge of the boot loader.           *)
(*                                                                         *)
(*   MemoryMapHolder / MemoryMapIterator   the memory-map snapshot         *)
(*   EfiBootServicesTable::get_memory_map  the capture wrapper             *)
(*   exit_from_efi_boot_services           the exit retry loop             *)
(*   locate_graphic_protocol / init_vram   the framebuffer locator         *)
(*   the const offset_of! assertions       the table layout                *)
(*                                                                         *)
(* The firmware behind the three function pointers is the environment; it  *)
(* follows the UEFI contract of GetMemoryMap / ExitBootServices /          *)
(* LocateProtocol.                                                         *)
(***************************************************************************)
EXTENDS Integers, Sequences, FiniteSets, TLC

VARIABLES
    memory_map,   \* the MemoryMapHolder the caller owns
    fw,           \* firmware: its current memory map and whether boot services ended
    pc,           \* position of exit_from_efi_boot_services
    calls,        \* boot-services calls made by exit_from_efi_boot_services, in order
    captured,     \* outcome of the latest get_memory_map on memory_map
    iters,        \* the MemoryMapIterators alive on memory_map
    gop,          \* firmware: the graphics output protocol, if installed
    vram,         \* what the latest init_vram returned
    locates,      \* locate_protocol calls received by the firmware, in order
    n_init_vram,  \* number of init_vram invocations so far
    lens,         \* lengths of the reserved arrays of the two tables
    build         \* outcome of the const assertions for lens

vars == <<memory_map, fw, pc, calls, captured, iters, gop, vram, locates,
          n_init_vram, lens, build>>

holderVars == <<memory_map, fw, captured>>
exitVars   == <<pc, calls>>
iterVars   == <<iters>>
vramVars   == <<gop, vram, locates, n_init_vram>>
layoutVars == <<lens, build>>

----------------------------------------------------------------------------
(* Bounds of the model *)

\* how many times the firmware's memory map changes in one run
MaxFwChanges == 2
\* how many items one iterator is followed for
MaxYield == 4
\* how many times init_vram is invoked in one run
MaxInitVram == 2
\* how far an edit moves the length of a reserved array from the source's
MaxLenDelta == 1

----------------------------------------------------------------------------
(* EfiStatus *)

\* The one declared variant (Success = 0) and the failure codes a firmware
\* returns through the same u64.
EfiStatus_Success == "Success"
FailureStatuses == {"BufferTooSmall", "InvalidParameter", "NotFound"}

\* `status == EfiStatus::Success` through the derived PartialEq.  EfiStatus
\* declares the single variant Success, so a failure code coming back from
\* the firmware is not a value of the type: comparing it is undefined
\* behaviour.  The derive for a one-variant fieldless enum compares nothing
\* (eq is constantly true); a build that compares the discriminants answers
\* false.  Both outcomes are kept.
EfiStatus_eq(status) ==
    IF status = EfiStatus_Success THEN {TRUE} ELSE {TRUE, FALSE}

----------------------------------------------------------------------------
(* MemoryMapHolder *)

MEMORY_MAP_BUFFER_SIZE == 32768

\* size_of::<EfiMemoryDescriptor>(): five 8-byte fields, repr(C)
DescriptorRecordSize == 40

\* memory_map_buffer is kept as the writes the firmware made into it, oldest
\* first, each [key, stride, size]: bytes 0 .. size-1 then hold the map of
\* that key laid out at that stride.  A write hides every earlier write that
\* is not longer than it.  A byte no write covers still holds the 0 that
\* new() put there.
MemoryMapHolder_new ==
    [ memory_map_buffer  |-> << >>,
      memory_map_size    |-> MEMORY_MAP_BUFFER_SIZE,
      map_key            |-> 0,
      descriptor_size    |-> 0,
      descriptor_version |-> 0 ]

----------------------------------------------------------------------------
(* The firmware's memory map, as GetMemoryMap reports it *)

\* descriptor strides a firmware uses (40 = the record itself, 48 = EDK2)
Strides == {40, 48}
\* map sizes in bytes; 100 and 120 are not multiples of every stride
FwFittingSizes == {0, 96, 100, 120, 144}
FwTooLarge == MEMORY_MAP_BUFFER_SIZE + 48
FwSizes == FwFittingSizes \cup {FwTooLarge}

Max(a, b) == IF a >= b THEN a ELSE b

\* a u64 as its eight bytes in memory (little endian), for values < 65536
U64LE(n) == << n % 256, (n \div 256) % 256, 0, 0, 0, 0, 0, 0 >>

\* The j-th descriptor (j = 0, 1, ...) of the map whose key is `key`.  The
\* memory-type tag runs over 0..15; 15 is not a value of EfiMemoryType.
FwDescriptor(key, j) ==
    [ memory_type     |-> U64LE((5 * key + 4 * j) % 16),
      physical_start  |-> U64LE(4096 * (j + 1) + key),
      virtual_start   |-> U64LE(0),
      number_of_pages |-> U64LE(j + 1),
      attribute       |-> U64LE(15) ]

\* repr(C) image of an EfiMemoryDescriptor: the five fields in declaration order
DescriptorBytes(d) ==
    d.memory_type \o d.physical_start \o d.virtual_start
        \o d.number_of_pages \o d.attribute

\* byte i of the map the firmware f writes: descriptors f.stride apart, the
\* bytes between a record and the next stride boundary zero
FwByte(f, i) ==
    LET j == i \div f.stride
        r == i % f.stride
    IN  IF r < DescriptorRecordSize
        THEN DescriptorBytes(FwDescriptor(f.key, j))[r + 1]
        ELSE 0

Min(a, b) == IF a <= b THEN a ELSE b

\* memory_map_buffer[i], 0 <= i < MEMORY_MAP_BUFFER_SIZE
BufByte(buf, i) ==
    LET cover == { k \in 1 .. Len(buf) : i < buf[k].size }
    IN  IF cover = {} THEN 0
        ELSE LET k == CHOOSE x \in cover : \A y \in cover : y <= x
             IN  FwByte(buf[k], i)

\* the buffer after the firmware f wrote its map into it; what lies behind
\* MEMORY_MAP_BUFFER_SIZE is not part of the buffer
BufferWrite(buf, f) ==
    LET n    == Min(f.size, MEMORY_MAP_BUFFER_SIZE)
        kept == SelectSeq(buf, LAMBDA w : w.size > n)
    IN  IF n = 0 THEN kept
        ELSE Append(kept, [ key |-> f.key, stride |-> f.stride, size |-> n ])

\* GetMemoryMap(&size, buffer, &key, &descriptor_size, &descriptor_version):
\* `offered` is the value *size holds on entry.  A buffer smaller than the map
\* gets BUFFER_TOO_SMALL, the needed size in *size and no map; whether the
\* other three out-parameters are written then is up to the firmware
\* (`outs_on_failure`).  Otherwise the firmware writes f.size bytes, trusting
\* `offered`.
FwGetMemoryMap(f, offered, m, outs_on_failure) ==
    IF offered < f.size
    THEN [ status |-> "BufferTooSmall",
           map    |-> IF outs_on_failure
                      THEN [ m EXCEPT !.memory_map_size    = f.size,
                                      !.map_key            = f.key,
                                      !.descriptor_size    = f.stride,
                                      !.descriptor_version = f.version ]
                      ELSE [ m EXCEPT !.memory_map_size = f.size ] ]
    ELSE [ status |-> EfiStatus_Success,
           map    |-> [ memory_map_buffer  |-> BufferWrite(m.memory_map_buffer, f),
                        memory_map_size    |-> f.size,
                        map_key            |-> f.key,
                        descriptor_size    |-> f.stride,
                        descriptor_version |-> f.version ] ]

\* ExitBootServices(handle, key): accepted only with the key of the current map
FwExitBootServices(f, key) ==
    IF key = f.key
    THEN [ status |-> EfiStatus_Success, fw |-> [ f EXCEPT !.exited = TRUE ] ]
    ELSE [ status |-> "InvalidParameter", fw |-> f ]

\* EfiBootServicesTable::get_memory_map: the holder's own memory_map_size is
\* the in/out size argument, the other fields are the out-parameters
get_memory_map(f, map, outs_on_failure) ==
    FwGetMemoryMap(f, map.memory_map_size, map, outs_on_failure)

FwStates ==
    [ size : FwSizes, stride : Strides, key : {1}, version : {1},
      exited : {FALSE}, changes : {0} ]

\* the firmware allocates or frees memory: a new map under a new key
FwChange ==
    /\ ~fw.exited
    /\ fw.changes < MaxFwChanges
    /\ \E s \in FwSizes :
          fw' = [ fw EXCEPT !.size = s, !.key = @ + 1, !.changes = @ + 1 ]
    /\ UNCHANGED <<memory_map, captured>>

\* what the latest get_memory_map on memory_map came to, and the map size the
\* firmware had then.  "overrun": the firmware was offered more than
\* MEMORY_MAP_BUFFER_SIZE and wrote past the end of memory_map_buffer.
CapturedAs(status, f) ==
    [ outcome  |-> IF status # EfiStatus_Success THEN "failed"
                   ELSE IF f.size > MEMORY_MAP_BUFFER_SIZE THEN "overrun"
                   ELSE "ok",
      required |-> f.size ]

NotCaptured == [ outcome |-> "none", required |-> 0 ]

----------------------------------------------------------------------------
(* exit_from_efi_boot_services *)

CallRecord(op, size_in, key, status) ==
    [ op |-> op, size_in |-> size_in, key |-> key, status |-> status ]

\* mutant: a failed capture is tried again instead of asserted on
AfterCapture_Retry(eq) == IF eq THEN "AwaitingExit" ELSE "Preparing"

\* `assert_eq!(status, EfiStatus::Success)`: where the loop goes after the capture
AfterCapture(eq) == IF eq THEN "AwaitingExit" ELSE "Panicked"

\* mutant: the loop has no break
AfterExit_NoBreak(eq) == "Preparing"

\* `if status == EfiStatus::Success { break; }`: where the loop goes after the exit call
AfterExit(eq) == IF eq THEN "Exited" ELSE "Preparing"

\* the caller captures the map (and may look at it) before it starts the exit
CallerCapture ==
    /\ pc = "NotStarted"
    /\ \E outs \in BOOLEAN :
          LET r == get_memory_map(fw, memory_map, outs)
          IN  /\ memory_map' = r.map
              /\ captured' = CapturedAs(r.status, fw)
    /\ UNCHANGED <<fw, pc, calls>>

\* loop head: get_memory_map(memory_map), then the assert_eq!
SeqGetMemoryMap ==
    /\ pc \in {"NotStarted", "Preparing"}
    /\ \E outs \in BOOLEAN :
          LET r == get_memory_map(fw, memory_map, outs)
          IN  /\ memory_map' = r.map
              /\ captured' = CapturedAs(r.status, fw)
              /\ calls' = Append(calls, CallRecord("get_memory_map",
                              memory_map.memory_map_size, r.map.map_key, r.status))
              /\ \E eq \in EfiStatus_eq(r.status) : pc' = AfterCapture(eq)
    /\ UNCHANGED fw

\* exit_boot_services(image_handle, memory_map.map_key), then break or loop
SeqExitBootServices ==
    /\ pc = "AwaitingExit"
    /\ LET r == FwExitBootServices(fw, memory_map.map_key)
       IN  /\ fw' = r.fw
           /\ calls' = Append(calls, CallRecord("exit_boot_services",
                           0, memory_map.map_key, r.status))
           /\ \E eq \in EfiStatus_eq(r.status) : pc' = AfterExit(eq)
    /\ UNCHANGED <<memory_map, captured>>

\* values of the variables a specification does not use
IdleGop    == [ present |-> FALSE, frame_buffer_base |-> 0, horizontal_rsolution |-> 0,
                vertical_resolution |-> 0, pixels_per_scan_line |-> 0 ]
IdleIters  == [ i \in {1, 2} |-> [ live |-> FALSE, ofs |-> 0, items |-> << >>, done |-> FALSE ] ]
IdleVram   ==
    [ kind |-> "none", buf |-> 0, width |-> 0, height |-> 0,
      pixels_per_line |-> 0, null_read |-> FALSE ]
SourceLens == [ bs0 |-> 7, bs1 |-> 21, bs4 |-> 10, st0 |-> 12 ]

InitExit ==
    /\ memory_map = MemoryMapHolder_new
    /\ fw \in FwStates
    /\ captured = NotCaptured
    /\ pc = "NotStarted"
    /\ calls = << >>
    /\ iters = IdleIters
    /\ gop = IdleGop /\ vram = IdleVram /\ locates = << >> /\ n_init_vram = 0
    /\ lens = SourceLens /\ build = "none"

NextExit ==
    \/ CallerCapture     /\ UNCHANGED <<iterVars, vramVars, layoutVars>>
    \/ SeqGetMemoryMap   /\ UNCHANGED <<iterVars, vramVars, layoutVars>>
    \/ SeqExitBootServices /\ UNCHANGED <<iterVars, vramVars, layoutVars>>
    \/ FwChange          /\ UNCHANGED <<exitVars, iterVars, vramVars, layoutVars>>

SpecExit == InitExit /\ [][NextExit]_vars

\* the function runs on the only thread there is and every firmware call
\* returns: once called, it takes its next step
SeqStep ==
    (SeqGetMemoryMap \/ SeqExitBootServices)
        /\ UNCHANGED <<iterVars, vramVars, layoutVars>>

SpecExitFair == SpecExit /\ WF_vars(SeqStep)

----------------------------------------------------------------------------
(* MemoryMapIterator *)

\* eight bytes of the buffer at offset o, as they lie in memory
ReadU64(buf, o) == [ k \in 1 .. 8 |-> BufByte(buf, o + k - 1) ]

\* `&*(buffer.as_ptr().add(ofs) as *const EfiMemoryDescriptor)`: the forty
\* bytes at ofs seen as the five fields
Decode(buf, o) ==
    [ memory_type     |-> ReadU64(buf, o),
      physical_start  |-> ReadU64(buf, o + 8),
      virtual_start   |-> ReadU64(buf, o + 16),
      number_of_pages |-> ReadU64(buf, o + 24),
      attribute       |-> ReadU64(buf, o + 32) ]

\* a record that reaches behind the end of the buffer is read from whatever
\* memory follows it
ForeignBytes == { [ k \in 1 .. 8 |-> 0 ], [ k \in 1 .. 8 |-> 255 ] }
DecodeOutcomes(map, o) ==
    IF o + DescriptorRecordSize <= MEMORY_MAP_BUFFER_SIZE
    THEN { Decode(map.memory_map_buffer, o) }
    ELSE [ memory_type : ForeignBytes, physical_start : ForeignBytes,
           virtual_start : ForeignBytes, number_of_pages : ForeignBytes,
           attribute : ForeignBytes ]

\* MemoryMapHolder::iter
MemoryMapHolder_iter ==
    [ live |-> TRUE, ofs |-> 0, items |-> << >>, done |-> FALSE ]

\* mutant: advance by the size of the record this layer knows
NextOfs_RecordSize(ofs, map) == ofs + DescriptorRecordSize

\* `self.ofs += self.map.descriptor_size`
NextOfs(ofs, map) == ofs + map.descriptor_size

\* mutant: an iterator that consumes the map it walks
MapAfterNext_Drain(map) ==
    [ map EXCEPT !.memory_map_size = Max(0, @ - map.descriptor_size) ]

\* next() holds the map by shared reference (`map: &'a MemoryMapHolder`)
MapAfterNext(map) == map

\* iter() on the holder
IterNew(i) ==
    /\ iters' = [ iters EXCEPT ![i] = MemoryMapHolder_iter ]
    /\ UNCHANGED <<memory_map, fw, captured>>

\* MemoryMapIterator::next; an iterator is followed for MaxYield items
IterNext(i) ==
    LET it == iters[i]
    IN  /\ it.live /\ ~it.done
        /\ IF it.ofs >= memory_map.memory_map_size
           THEN /\ iters' = [ iters EXCEPT ![i].done = TRUE ]
                /\ UNCHANGED memory_map
           ELSE /\ Len(it.items) < MaxYield
                /\ \E e \in DecodeOutcomes(memory_map, it.ofs) :
                      iters' = [ iters EXCEPT
                                   ![i].items = Append(@, [ ofs |-> it.ofs, desc |-> e ]),
                                   ![i].ofs = NextOfs(it.ofs, memory_map) ]
                /\ memory_map' = MapAfterNext(memory_map)
        /\ UNCHANGED <<fw, captured>>

\* get_memory_map(&mut map): no iterator outlives the exclusive borrow
Capture ==
    /\ \E outs \in BOOLEAN :
          LET r == get_memory_map(fw, memory_map, outs)
          IN  /\ memory_map' = r.map
              /\ captured' = CapturedAs(r.status, fw)
    /\ iters' = IdleIters
    /\ UNCHANGED fw

InitIter ==
    /\ memory_map = MemoryMapHolder_new
    /\ fw \in FwStates
    /\ captured = NotCaptured
    /\ iters = IdleIters
    /\ pc = "NotStarted" /\ calls = << >>
    /\ gop = IdleGop /\ vram = IdleVram /\ locates = << >> /\ n_init_vram = 0
    /\ lens = SourceLens /\ build = "none"

NextIter ==
    \/ Capture   /\ UNCHANGED <<exitVars, vramVars, layoutVars>>
    \/ FwChange  /\ UNCHANGED <<exitVars, iterVars, vramVars, layoutVars>>
    \/ \E i \in {1, 2} : IterNew(i)  /\ UNCHANGED <<exitVars, vramVars, layoutVars>>
    \/ \E i \in {1, 2} : IterNext(i) /\ UNCHANGED <<exitVars, vramVars, layoutVars>>

SpecIter == InitIter /\ [][NextIter]_vars

----------------------------------------------------------------------------
(* locate_graphic_protocol and init_vram *)

\* 9042a9de-23dc-4a38-96fb-7aded080516a; data0 as its two 16-bit halves
EFI_GRAPHICS_OUTPUT_PROTOCOL_GUID ==
    [ data0 |-> << 36930, 43486 >>,
      data1 |-> 9180,
      data2 |-> 19000,
      data3 |-> << 150, 251, 122, 222, 208, 128, 81, 106 >> ]

\* the firmware's graphics output protocol: absent, or installed with an
\* active mode (EfiGraphicsOutputProtocolMode and its PixelInfo)
GopStates ==
    { IdleGop } \cup
    [ present : {TRUE},
      frame_buffer_base : {1048576, 2097152},
      horizontal_rsolution : {640, 800},
      vertical_resolution : {480, 600},
      pixels_per_scan_line : {640, 800, 832} ]

\* LocateProtocol(guid, NULL, &interface): on success *interface points at the
\* protocol; on failure *interface is left as it was (null)
FwLocateProtocol(g, guid) ==
    IF g.present /\ guid = EFI_GRAPHICS_OUTPUT_PROTOCOL_GUID
    THEN [ status |-> EfiStatus_Success, interface |-> "protocol" ]
    ELSE [ status |-> "NotFound", interface |-> "null" ]

\* mutant: a second attempt when the first one fails
LocateProtocolCalls_Retry(g) ==
    LET r == FwLocateProtocol(g, EFI_GRAPHICS_OUTPUT_PROTOCOL_GUID)
        c == [ guid |-> EFI_GRAPHICS_OUTPUT_PROTOCOL_GUID, status |-> r.status ]
    IN  IF r.status = EfiStatus_Success THEN << c >> ELSE << c, c >>

\* the locate_protocol calls one locate_graphic_protocol makes
LocateProtocolCalls(g) ==
    LET r == FwLocateProtocol(g, EFI_GRAPHICS_OUTPUT_PROTOCOL_GUID)
    IN  << [ guid |-> EFI_GRAPHICS_OUTPUT_PROTOCOL_GUID, status |-> r.status ] >>

\* what a read through the null protocol pointer brings back
NullReadWords == {0, 4096}

\* mutant: the visible width taken for the length of a scan line
VramBufferInfo_WidthAsStride(g) ==
    [ kind            |-> "Ok",
      buf             |-> g.frame_buffer_base,
      width           |-> g.horizontal_rsolution,
      height          |-> g.vertical_resolution,
      pixels_per_line |-> g.horizontal_rsolution,
      null_read       |-> FALSE ]

\* Ok(VramBufferInfo { .. }) built from the protocol's active mode
VramBufferInfo(g) ==
    [ kind            |-> "Ok",
      buf             |-> g.frame_buffer_base,
      width           |-> g.horizontal_rsolution,
      height          |-> g.vertical_resolution,
      pixels_per_line |-> g.pixels_per_scan_line,
      null_read       |-> FALSE ]

VramErr == [ IdleVram EXCEPT !.kind = "Err" ]

\* the results of init_vram.  `eq` is what `status == EfiStatus::Success`
\* came to, so `status != Success` is ~eq.  When the check lets a failed
\* locate through, `&*graphic_output_protocol` and the reads of gp.mode go
\* through the null pointer: the call faults, or builds a VramBufferInfo out
\* of whatever lies there.
InitVramResults(g, eq) ==
    LET r == FwLocateProtocol(g, EFI_GRAPHICS_OUTPUT_PROTOCOL_GUID)
    IN  IF ~eq THEN { VramErr }
        ELSE IF r.interface = "protocol" THEN { VramBufferInfo(g) }
        ELSE { [ IdleVram EXCEPT !.kind = "Fault", !.null_read = TRUE ] }
             \cup [ kind : {"Ok"}, buf : NullReadWords, width : NullReadWords,
                    height : NullReadWords, pixels_per_line : NullReadWords,
                    null_read : {TRUE} ]

\* init_vram(efi_system_table)
InitVram ==
    /\ n_init_vram < MaxInitVram
    /\ n_init_vram' = n_init_vram + 1
    /\ locates' = locates \o LocateProtocolCalls(gop)
    /\ LET r == FwLocateProtocol(gop, EFI_GRAPHICS_OUTPUT_PROTOCOL_GUID)
       IN  \E eq \in EfiStatus_eq(r.status) :
              vram' \in InitVramResults(gop, eq)
    /\ UNCHANGED gop

\* the firmware installs, removes or reprograms the protocol
GopChange ==
    /\ \E g \in GopStates : g # gop /\ gop' = g
    /\ UNCHANGED <<vram, locates, n_init_vram>>

InitVramSpec ==
    /\ gop \in GopStates
    /\ vram = IdleVram /\ locates = << >> /\ n_init_vram = 0
    /\ memory_map = MemoryMapHolder_new
    /\ fw = [ size |-> 0, stride |-> 40, key |-> 1, version |-> 1,
              exited |-> FALSE, changes |-> 0 ]
    /\ captured = NotCaptured
    /\ iters = IdleIters
    /\ pc = "NotStarted" /\ calls = << >>
    /\ lens = SourceLens /\ build = "none"

NextVram ==
    \/ InitVram  /\ UNCHANGED <<holderVars, exitVars, iterVars, layoutVars>>
    \/ GopChange /\ UNCHANGED <<holderVars, exitVars, iterVars, layoutVars>>

SpecVram == InitVramSpec /\ [][NextVram]_vars

----------------------------------------------------------------------------
(* Layout of EfiBootServicesTable and EfiSytemTable, and the const assertions *)

\* a [u64; n] array, and a function pointer or reference (x86_64)
U64Array(name, n) == [ name |-> name, size |-> 8 * n, align |-> 8 ]
Pointer(name)     == [ name |-> name, size |-> 8, align |-> 8 ]

\* #[repr(C)] struct EfiBootServicesTable, its fields in declaration order
EfiBootServicesTable(l) ==
    << U64Array("_reserved0", l.bs0), Pointer("get_memory_map"),
       U64Array("_reserved1", l.bs1), Pointer("exit_boot_services"),
       U64Array("_reserved4", l.bs4), Pointer("locate_protocol") >>

\* #[repr(C)] struct EfiSytemTable
EfiSytemTable(l) ==
    << U64Array("_reserved0", l.st0), Pointer("boot_services") >>

AlignUp(x, a) == ((x + a - 1) \div a) * a

\* repr(C): each field at the first multiple of its alignment behind the
\* field before it.  FieldOffset(fields, k) is the offset of the k-th field.
RECURSIVE FieldOffset(_, _)
FieldOffset(fields, k) ==
    IF k = 1 THEN 0
    ELSE AlignUp(FieldOffset(fields, k - 1) + fields[k - 1].size, fields[k].align)

\* offset_of!(Struct, name)
offset_of(fields, name) ==
    FieldOffset(fields, CHOOSE k \in 1 .. Len(fields) : fields[k].name = name)

\* mutant: the assertion on exit_boot_services is missing
ConstAsserts_NoExitCheck(l) ==
    /\ offset_of(EfiBootServicesTable(l), "get_memory_map") = 56
    /\ offset_of(EfiBootServicesTable(l), "locate_protocol") = 320
    /\ offset_of(EfiSytemTable(l), "boot_services") = 96

\* the four `const _: () = assert!(offset_of!(..) == ..)`
ConstAsserts(l) ==
    /\ offset_of(EfiBootServicesTable(l), "get_memory_map") = 56
    /\ offset_of(EfiBootServicesTable(l), "exit_boot_services") = 232
    /\ offset_of(EfiBootServicesTable(l), "locate_protocol") = 320
    /\ offset_of(EfiSytemTable(l), "boot_services") = 96

LenRange(n) == (n - MaxLenDelta) .. (n + MaxLenDelta)

\* an edit of the source changes the length of one reserved array
EditLens ==
    /\ \E f \in DOMAIN lens : \E n \in LenRange(SourceLens[f]) :
          /\ n # lens[f]
          /\ lens' = [ lens EXCEPT ![f] = n ]
    /\ build' = "none"

\* the compiler evaluates the const assertions
Build ==
    /\ build = "none"
    /\ build' = IF ConstAsserts(lens) THEN "ok" ELSE "failed"
    /\ UNCHANGED lens

InitLayout ==
    /\ lens = SourceLens /\ build = "none"
    /\ memory_map = MemoryMapHolder_new
    /\ fw = [ size |-> 0, stride |-> 40, key |-> 1, version |-> 1,
              exited |-> FALSE, changes |-> 0 ]
    /\ captured = NotCaptured
    /\ iters = IdleIters
    /\ pc = "NotStarted" /\ calls = << >>
    /\ gop = IdleGop /\ vram = IdleVram /\ locates = << >> /\ n_init_vram = 0

NextLayout ==
    \/ EditLens /\ UNCHANGED <<holderVars, exitVars, iterVars, vramVars>>
    \/ Build    /\ UNCHANGED <<holderVars, exitVars, iterVars, vramVars>>

SpecLayout == InitLayout /\ [][NextLayout]_vars

----------------------------------------------------------------------------
(* Properties of exit_from_efi_boot_services (SpecExit) *)

CallsOf(op) == { i \in 1 .. Len(calls) : calls[i].op = op }
Failed(i)   == calls[i].status # EfiStatus_Success

\* C1: against a firmware whose first exit_boot_services call fails on a stale
\* key (its map changed once, after the first capture, and fits the buffer)
\* and whose second would succeed, the function ends in Exited after exactly
\* two get_memory_map calls and two exit_boot_services calls.
C1_TwoCapturesThenExited ==
    ( /\ pc \in {"Exited", "Panicked"}
      /\ fw.changes = 1
      /\ fw.size <= MEMORY_MAP_BUFFER_SIZE
      /\ Len(calls) >= 2
      /\ calls[1].op = "get_memory_map" /\ ~Failed(1)
      /\ calls[2].op = "exit_boot_services" /\ Failed(2) )
    => ( /\ pc = "Exited"
         /\ fw.exited
         /\ Cardinality(CallsOf("get_memory_map")) = 2
         /\ Cardinality(CallsOf("exit_boot_services")) = 2 )

\* C6: once exit_boot_services has returned success, the function makes no
\* further boot-services call (no get_memory_map, exit_boot_services or
\* locate_protocol).
C6_NoCallAfterExit ==
    [][ fw.exited => (calls' = calls /\ locates' = locates) ]_vars

\* C6 witness: the exit succeeded on a retry and the function has returned
C6_Witness ==
    /\ fw.exited
    /\ pc = "Exited"
    /\ Len(calls) = 4
    /\ Failed(2)

\* C7: a get_memory_map failure inside the loop is fatal: it is the last call
\* the function makes (no exit_boot_services with that capture's key, no
\* retry) and the function has panicked.
C7_CaptureFailureIsFatal ==
    \A i \in CallsOf("get_memory_map") :
        Failed(i) => (i = Len(calls) /\ pc = "Panicked")

\* C13: every exit_boot_services call comes right after a successful
\* get_memory_map call and passes the key that capture recorded; no two exit
\* calls pass the same key.
C13_ExitUsesFreshKey ==
    /\ \A i \in CallsOf("exit_boot_services") :
          /\ i > 1
          /\ calls[i - 1].op = "get_memory_map"
          /\ ~Failed(i - 1)
          /\ calls[i].key = calls[i - 1].key
    /\ \A i, j \in CallsOf("exit_boot_services") :
          i # j => calls[i].key # calls[j].key

\* C14: when every map the firmware has fits MEMORY_MAP_BUFFER_SIZE (and the
\* map changes only finitely often, as it does here), the function eventually
\* gets its exit accepted and returns.
C14_EventuallyExited ==
    [] (fw.size <= MEMORY_MAP_BUFFER_SIZE) => <> (pc = "Exited" /\ fw.exited)

\* C15: every get_memory_map of the loop offers the firmware the whole
\* MEMORY_MAP_BUFFER_SIZE bytes, so a capture fails for its size only when
\* the firmware needs more than that.
C15_CaptureOffersFullCapacity ==
    /\ \A i \in CallsOf("get_memory_map") :
          calls[i].size_in = MEMORY_MAP_BUFFER_SIZE
    /\ captured.outcome = "failed" => captured.required > MEMORY_MAP_BUFFER_SIZE

FailedExits == { i \in CallsOf("exit_boot_services") : Failed(i) }

----------------------------------------------------------------------------
(* Properties of MemoryMapHolder::iter and get_memory_map (SpecIter) *)

Its == {1, 2}

\* C2: for a snapshot with used size U and stride S > 0, an iteration that
\* has run to its end yielded exactly U \div S items and decoded no byte at
\* an offset >= U (every forty-byte record read ends at or before U).
C2_YieldsFloorOfSizeByStride ==
    \A i \in Its :
        (iters[i].done /\ memory_map.descriptor_size > 0)
        => /\ Len(iters[i].items)
                = memory_map.memory_map_size \div memory_map.descriptor_size
           /\ \A k \in 1 .. Len(iters[i].items) :
                 iters[i].items[k].ofs + DescriptorRecordSize
                     <= memory_map.memory_map_size

\* C3: the k-th item (k = 0, 1, ...) is decoded at byte offset k * S, S the
\* stride recorded in the snapshot; an item that lies within the captured
\* bytes is the k-th descriptor the firmware wrote; a map of used size 120
\* and stride 40 yields exactly 3 items before the end of the sequence.
C3_StrideAndOrder ==
    \A i \in Its :
        /\ \A k \in 1 .. Len(iters[i].items) :
              LET item == iters[i].items[k]
              IN  /\ item.ofs = (k - 1) * memory_map.descriptor_size
                  /\ ( /\ captured.outcome = "ok"
                       /\ item.ofs + DescriptorRecordSize <= memory_map.memory_map_size )
                     => item.desc = FwDescriptor(memory_map.map_key, k - 1)
        /\ ( /\ iters[i].done
             /\ memory_map.memory_map_size = 120
             /\ memory_map.descriptor_size = 40 )
           => Len(iters[i].items) = 3

\* C3 witness: a map of three descriptors at stride 48 was iterated to its end
C3_Witness ==
    \E i \in Its :
        /\ captured.outcome = "ok"
        /\ memory_map.descriptor_size = 48
        /\ memory_map.memory_map_size = 144
        /\ iters[i].done
        /\ Len(iters[i].items) = 3
        /\ iters[i].items[3].ofs = 96

\* C4: two iterations of the same snapshot agree item by item, in order, and
\* a step of an iterator (iter() or next()) leaves the snapshot's buffer, used
\* size, key, stride and version as they were.
C4_IterationRepeatable ==
    /\ [] ( \A k \in 1 .. Min(Len(iters[1].items), Len(iters[2].items)) :
                iters[1].items[k] = iters[2].items[k] )
    /\ [] ( (iters[1].done /\ iters[2].done) => iters[1].items = iters[2].items )
    /\ [][ (\E i \in Its : iters'[i] # iters[i] /\ iters'[i].live)
             => memory_map' = memory_map ]_vars

\* C4 witness: both iterators walked a captured map of several descriptors to its end
C4_Witness ==
    /\ captured.outcome = "ok"
    /\ iters[1].done /\ iters[2].done
    /\ Len(iters[1].items) >= 2
    /\ Len(iters[2].items) >= 2

\* C5: after a capture that failed because the firmware needs more than
\* MEMORY_MAP_BUFFER_SIZE bytes, the snapshot records no used size larger
\* than its buffer and iterating it yields no item.
C5_FailedCaptureExposesNothing ==
    (captured.outcome = "failed" /\ captured.required > MEMORY_MAP_BUFFER_SIZE)
    => /\ memory_map.memory_map_size <= MEMORY_MAP_BUFFER_SIZE
       /\ \A i \in Its : iters[i].items = << >>

\* C11: a holder that new() returned and no get_memory_map has touched is
\* empty: iterating it yields no descriptor (and so ends at the first next()).
C11_NewHolderIsEmpty ==
    captured = NotCaptured
    => \A i \in Its : iters[i].items = << >>

\* the fifteen values of EfiMemoryType, RESERVED = 0 .. PERSISTENT_MEMORY = 14,
\* as the eight bytes of the i64 tag
IsEfiMemoryType(tag) ==
    /\ tag[1] \in 0 .. 14
    /\ \A k \in 2 .. 8 : tag[k] = 0

\* C12: iteration never yields a descriptor whose memory-type tag is not one
\* of the fifteen values of EfiMemoryType.
C12_NoUnrecognizedTagYielded ==
    \A i \in Its : \A k \in 1 .. Len(iters[i].items) :
        IsEfiMemoryType(iters[i].items[k].desc.memory_type)

\* the buffer as it would be had only the capture that memory_map.map_key
\* belongs to ever written into it
LatestWriteOnly(map) ==
    SelectSeq(map.memory_map_buffer, LAMBDA w : w.key = map.map_key)

\* C16: after a successful capture, also into a holder that held an earlier
\* one, the used size, key, stride and version are the firmware's of that
\* capture, and every item iteration yields is made of bytes that capture
\* wrote: none is left over from an earlier capture.
C16_RecaptureOverwrites ==
    (captured.outcome = "ok" /\ memory_map.map_key = fw.key)
    => /\ memory_map.memory_map_size = fw.size
       /\ memory_map.descriptor_size = fw.stride
       /\ memory_map.descriptor_version = fw.version
       /\ \A i \in Its : \A k \in 1 .. Len(iters[i].items) :
             iters[i].items[k].desc
                 = Decode(LatestWriteOnly(memory_map), iters[i].items[k].ofs)

\* C18: in a holder whose latest capture succeeded with a used size within
\* the buffer and a stride above zero, every record iteration decodes, forty
\* bytes at offset o, lies within the used size, and the used size within the
\* buffer: o + 40 <= memory_map_size <= 32768.
C18_ItemsInsideCapturedData ==
    ( /\ captured.outcome = "ok"
      /\ memory_map.descriptor_size > 0
      /\ captured.required <= MEMORY_MAP_BUFFER_SIZE )
    => /\ memory_map.memory_map_size <= MEMORY_MAP_BUFFER_SIZE
       /\ \A i \in Its : \A k \in 1 .. Len(iters[i].items) :
             iters[i].items[k].ofs + DescriptorRecordSize
                 <= memory_map.memory_map_size

----------------------------------------------------------------------------
(* Properties of init_vram (SpecVram) *)

\* C8: when the firmware's locate_protocol reports a non-success status,
\* init_vram returns an error, builds no VramBufferInfo and reads nothing
\* through the unset protocol pointer.
C8_LocateFailureGivesError ==
    (Len(locates) > 0 /\ locates[Len(locates)].status # EfiStatus_Success)
    => (vram.kind = "Err" /\ ~vram.null_read)

\* C9: every init_vram has issued exactly one locate_protocol call, asking
\* for EFI_GRAPHICS_OUTPUT_PROTOCOL_GUID, whether the call succeeded or not.
C9_OneLocatePerInitVram ==
    /\ Len(locates) = n_init_vram
    /\ \A i \in 1 .. Len(locates) :
          locates[i].guid = EFI_GRAPHICS_OUTPUT_PROTOCOL_GUID

\* C9 witness: one init_vram whose locate failed, then one whose locate succeeded
C9_Witness ==
    /\ n_init_vram = 2
    /\ Len(locates) = 2
    /\ locates[1].status # EfiStatus_Success
    /\ locates[2].status = EfiStatus_Success
    /\ vram.kind = "Ok"

\* C19: an init_vram whose locate_protocol succeeds returns a VramBufferInfo
\* with buf = frame_buffer_base, width and height = the horizontal and the
\* vertical resolution, and pixels_per_line = pixels_per_scan_line of the
\* active mode.
C19_VramFromActiveMode ==
    [][ ( /\ n_init_vram' = n_init_vram + 1
          /\ FwLocateProtocol(gop, EFI_GRAPHICS_OUTPUT_PROTOCOL_GUID).status
                 = EfiStatus_Success )
        => /\ vram'.kind = "Ok"
           /\ ~vram'.null_read
           /\ vram'.buf = gop.frame_buffer_base
           /\ vram'.width = gop.horizontal_rsolution
           /\ vram'.height = gop.vertical_resolution
           /\ vram'.pixels_per_line = gop.pixels_per_scan_line ]_vars

\* C19 witness: a mode whose scan line is longer than its visible width
C19_Witness ==
    /\ vram.kind = "Ok"
    /\ ~vram.null_read
    /\ vram.buf = 2097152
    /\ vram.width = 800 /\ vram.height = 600
    /\ vram.pixels_per_line = 832
    /\ locates[Len(locates)].status = EfiStatus_Success

----------------------------------------------------------------------------
(* Properties of the table layout (SpecLayout) *)

OffsetsAsSpecified(l) ==
    /\ offset_of(EfiBootServicesTable(l), "get_memory_map") = 56
    /\ offset_of(EfiBootServicesTable(l), "exit_boot_services") = 232
    /\ offset_of(EfiBootServicesTable(l), "locate_protocol") = 320
    /\ offset_of(EfiSytemTable(l), "boot_services") = 96

\* C10: with the source's reserved lengths the offsets of get_memory_map,
\* exit_boot_services, locate_protocol and boot_services are 56, 232, 320 and
\* 96; a build passes the const assertions only with exactly these offsets,
\* so every change of a reserved length, each of which moves one of them,
\* fails the build.
C10_OffsetsPinned ==
    /\ lens = SourceLens => OffsetsAsSpecified(lens)
    /\ build = "ok" => (OffsetsAsSpecified(lens) /\ lens = SourceLens)
    /\ build = "failed" => (~OffsetsAsSpecified(lens) /\ lens # SourceLens)

\* C10 witness: _reserved1 grew by one and _reserved4 shrank by one, which
\* keeps locate_protocol at 320 but moves exit_boot_services; the build failed
C10_Witness ==
    /\ build = "failed"
    /\ lens.bs0 = 7 /\ lens.bs1 = 22 /\ lens.bs4 = 9 /\ lens.st0 = 12
    /\ offset_of(EfiBootServicesTable(lens), "locate_protocol") = 320
    /\ offset_of(EfiBootServicesTable(lens), "exit_boot_services") = 240

====
